---- MODULE Spec2Model ----
(***************************************************************************)
(* PostOrderIterator of unixfs/src/dir/builder/iter.rs: the explicit-stack *)
(* post-order walk that renders every directory of a buffered tree into a  *)
(* dag-pb block.                                                           *)
(*                                                                         *)
(* Conventions.                                                            *)
(*  - Option<T> is a sequence of length at most one: None is <<>> and      *)
(*    Some(x) is <<x>>.                                                    *)
(*  - A String is a sequence of one-character strings; a block is a        *)
(*    sequence of integers (bytes).                                        *)
(*  - A DirBuilder owned by a frame is named by its id into the input      *)
(*    `tree`; the tree itself is never written after construction.         *)
(*  - u64 arithmetic wraps at U64Range, which stands for 2^64: the sizes   *)
(*    that occur are either far below it or within a block length of it.   *)
(*  - `out`, `visits`, `exhausted` and the `node` field of Post frames     *)
(*    and of returned items are history (ghost) state: the code does not   *)
(*    keep them, the properties read them.                                 *)
(***************************************************************************)
EXTENDS Integers, Sequences, FiniteSets, TLC

\* ------------------------------------------------------------------ bounds

\* The largest number of directories (the root included) of an input tree.
MaxNodes == 4

\* Stands for 2^64: u64 additions wrap (release) or panic (debug) at it.
U64Range == 1000000

\* ----------------------------------------------------------------- options

None == <<>>

Some(x) == <<x>>

IsSome(o) == Len(o) = 1

Unwrap(o) == o[1]

\* ------------------------------------------------------------- input trees

\* The keys a directory's BTreeMap may hold, in the map's (lexicographic)
\* order: "a" < "b" < "bb" < "c".
KeyNames == << <<"a">>, <<"b">>, <<"b", "b">>, <<"c">> >>

\* Keys used for subdirectories and the key used for a leaf (file) entry.
DirKeys == {1, 3, 4}

LeafKeys == {2}

\* The content id a caller gives for a leaf: some CIDv1 raw-codec prefix.
LeafCid == <<1, 85>>

\* The total_size a caller may give for a leaf: tiny, or u64::MAX.
LeafSizes == {1, U64Range - 1}

\* Entry of key k in directory d, given the parent vector, the directory
\* names and the leaf sizes (0: no leaf in d).
EntryAt(par, nm, lf, d, k) ==
    IF k \in LeafKeys
    THEN [name |-> KeyNames[k], kind |-> "Leaf", link |-> LeafCid,
          total_size |-> lf[d]]
    ELSE [name |-> KeyNames[k], kind |-> "Directory",
          node |-> CHOOSE c \in DOMAIN par : par[c] = d /\ nm[c] = k]

HasKey(par, nm, lf, d, k) ==
    IF k \in LeafKeys
    THEN lf[d] # 0
    ELSE \E c \in DOMAIN par : par[c] = d /\ nm[c] = k

\* DirBuilder::nodes of directory d as the BTreeMap iterates it: by key.
RECURSIVE NodesFrom(_, _, _, _, _)
NodesFrom(par, nm, lf, d, k) ==
    IF k > Len(KeyNames) THEN <<>>
    ELSE (IF HasKey(par, nm, lf, d, k)
          THEN <<EntryAt(par, nm, lf, d, k)>> ELSE <<>>)
         \o NodesFrom(par, nm, lf, d, k + 1)

\* The DirBuilder of every directory: ids are unique, the root is 0 and has
\* no parent_id, every other parent_id names the actual parent.
MakeTree(n, par, nm, lf) ==
    [d \in 0..(n - 1) |->
        [id |-> d,
         parent_id |-> IF d = 0 THEN None ELSE Some(par[d]),
         nodes |-> NodesFrom(par, nm, lf, d, 1)]]

\* Every tree of at most MaxNodes directories in which sibling names are
\* distinct and at most one directory holds a leaf.
Trees ==
    UNION {
      { MakeTree(n, par, nm, lf) :
          <<par, nm, lf>> \in
            { t \in [1..(n - 1) -> 0..(n - 1)] \X [1..(n - 1) -> DirKeys]
                     \X [0..(n - 1) -> {0} \cup LeafSizes] :
                /\ \A c \in 1..(n - 1) : t[1][c] < c
                /\ \A c, e \in 1..(n - 1) :
                      (c # e /\ t[1][c] = t[1][e]) => t[2][c] # t[2][e]
                /\ \A d, e \in 0..(n - 1) :
                      (t[3][d] # 0 /\ t[3][e] # 0) => d = e } }
      : n \in 1..MaxNodes }

\* --------------------------------------------------------------- variables

VARIABLES
    tree,             \* the input: DirBuilder by id (the root is tree[0])
    debug_build,      \* the build: debug assertions and overflow checks on
    full_path,        \* PostOrderIterator::full_path
    old_depth,        \* PostOrderIterator::old_depth
    block_buffer,     \* PostOrderIterator::block_buffer
    pending,          \* PostOrderIterator::pending, the top is the last
    persisted_cids,   \* PostOrderIterator::persisted_cids
    reused_children,  \* PostOrderIterator::reused_children
    cid,              \* PostOrderIterator::cid
    total_size,       \* PostOrderIterator::total_size
    opts,             \* PostOrderIterator::opts
    pc,               \* "idle" between pulls, "loop" inside next_borrowed,
                      \* "panicked" once a pull has panicked
    result,           \* what the last finished pull returned
    out,              \* history: every Some(..) item returned so far
    visits,           \* history, per directory: its frames popped as descent
                      \* and as post, and the calls of render_directory
    exhausted,        \* history: some pull has returned None
    twin              \* under PairSpec (None under Spec): a second
                      \* iterator over the same tree and limit with
                      \* wrap_with_directory = false (stepped by PairSpec)

vars == <<tree, debug_build, full_path, old_depth, block_buffer, pending,
          persisted_cids, reused_children, cid, total_size, opts, pc, result,
          out, visits, exhausted, twin>>

\* ---------------------------------------------- the dag-pb encoder (pb.rs)

CharCode == ("a" :> 97) @@ ("b" :> 98) @@ ("c" :> 99) @@ ("/" :> 47)

NameBytes(name) == [i \in 1..Len(name) |-> CharCode[name[i]]]

\* quick_protobuf::sizeofs::sizeof_varint for the values that occur.
VarintLen(v) == IF v < 128 THEN 1 ELSE IF v < 16384 THEN 2 ELSE 10

\* The varint of v: little-endian groups of seven bits; a value near 2^64
\* takes ten bytes.
Varint(v) ==
    IF v < 128 THEN <<v>>
    ELSE IF v < 16384 THEN <<128 + (v % 128), v \div 128>>
    ELSE <<128 + (v % 128), 128 + ((v \div 128) % 128), 255, 255, 255, 255,
           255, 255, 255, 1>>

\* One PBLink: Hash (1), Name (2), Tsize (3).
LinkBody(l) ==
    <<10, Len(l.link)>> \o l.link \o <<18, Len(l.name)>> \o NameBytes(l.name)
        \o <<24>> \o Varint(l.total_size)

LinkBodySize(l) ==
    2 + Len(l.link) + 2 + Len(l.name) + 1 + VarintLen(l.total_size)

\* UnixFs { Type: Directory } as the Data field: 0a 02 08 01.
DirectoryData == <<10, 2, 8, 1>>

\* CustomFlatUnixFs::write_message: the links in order, then the data.
RECURSIVE Encode(_)
Encode(links) ==
    IF links = <<>> THEN DirectoryData
    ELSE <<18, LinkBodySize(Unwrap(Head(links)))>>
            \o LinkBody(Unwrap(Head(links))) \o Encode(Tail(links))

\* CustomFlatUnixFs::get_size.
RECURSIVE get_size(_)
get_size(links) ==
    IF links = <<>> THEN Len(DirectoryData)
    ELSE 2 + LinkBodySize(Unwrap(Head(links))) + get_size(Tail(links))

\* Sha256::digest, as a checksum of the bytes: one cell stands for the
\* 32 bytes of the digest.
RECURSIVE Digest(_)
Digest(bytes) ==
    IF bytes = <<>> THEN 7
    ELSE (31 * Digest(SubSeq(bytes, 1, Len(bytes) - 1))
            + bytes[Len(bytes)] + Len(bytes)) % 65521

\* Cid::new_v0(multihash::wrap(Sha2_256, digest)).
CidV0(bytes) == <<18, 32, Digest(bytes)>>

\* -------------------------------------------------------- render_directory

\* The unwrap of every link slot: false when some slot is still None.
LinksComplete(links) == \A i \in 1..Len(links) : IsSome(links[i])

\* A faulty variant: the limit refuses a block of exactly its size.
ExceedsLimit_OrEqual(block_size_limit, size) ==
    IsSome(block_size_limit) /\ Unwrap(block_size_limit) <= size

\* if let Some(limit) = block_size_limit { if *limit < size { .. } }
ExceedsLimit(block_size_limit, size) ==
    IsSome(block_size_limit) /\ Unwrap(block_size_limit) < size

\* while needed_zeroes > 8 { extend 8 zeroes }; extend the rest.
RECURSIVE ZeroExtend(_, _)
ZeroExtend(buffer, needed_zeroes) ==
    IF needed_zeroes > 8
    THEN ZeroExtend(buffer \o <<0, 0, 0, 0, 0, 0, 0, 0>>, needed_zeroes - 8)
    ELSE buffer \o [i \in 1..needed_zeroes |-> 0]

\* Writer::new(BytesWriter::new(&mut buffer[..])) and write_message: the
\* message overwrites the front of the buffer, the rest stays.
WriteMessage(buffer, links) ==
    LET msg == Encode(links)
    IN  [i \in 1..Len(buffer) |-> IF i <= Len(msg) THEN msg[i] ELSE buffer[i]]

\* A faulty variant: the buffer is not truncated to the encoded size.
Truncate_Keeps(buffer, size) == buffer

\* buffer.truncate(size)
Truncate(buffer, size) ==
    IF size < Len(buffer) THEN SubSeq(buffer, 1, size) ELSE buffer

\* links.iter().map(|NamedLeaf(_, _, total_size)| total_size).sum(), as the
\* mathematical sum.
RECURSIVE CombinedFromLinks(_)
CombinedFromLinks(links) ==
    IF links = <<>> THEN 0
    ELSE Unwrap(Head(links)).total_size + CombinedFromLinks(Tail(links))

\* buffer.len() as u64 + combined_from_links in u64: the wrapped value.
WrappingTotal(len, combined) == (len + combined) % U64Range

\* An addition of the sum overflows u64 (the terms are not negative, so one
\* does exactly when the whole sum leaves the range).
Overflows(len, combined) == len + combined >= U64Range

\* PostOrderIterator::render_directory. kind is "Ok" (leaf is the Leaf
\* returned), "Err" (TooLargeBlock(size)) or "Panic"; buffer is the block
\* buffer afterwards.
render_directory(links, buffer, block_size_limit) ==
    IF ~LinksComplete(links)
    THEN [kind |-> "Panic", buffer |-> buffer, size |-> 0, leaf |-> None,
          msg |-> "called Option::unwrap() on a None value"]
    ELSE
    LET size == get_size(links)
        needed == IF size >= Len(buffer) THEN size - Len(buffer) ELSE 0
        block == Truncate(WriteMessage(ZeroExtend(buffer, needed), links), size)
        combined == CombinedFromLinks(links)
    IN  IF ExceedsLimit(block_size_limit, size)
        THEN [kind |-> "Err", buffer |-> buffer, size |-> size, leaf |-> None,
              msg |-> "TooLargeBlock"]
        ELSE IF debug_build /\ Overflows(Len(block), combined)
        THEN [kind |-> "Panic", buffer |-> block, size |-> size, leaf |-> None,
              msg |-> "attempt to add with overflow"]
        ELSE [kind |-> "Ok", buffer |-> block, size |-> size,
              leaf |-> Some([link |-> CidV0(block),
                             total_size |-> WrappingTotal(Len(block), combined)]),
              msg |-> ""]

\* -------------------------------------------------------- update_full_path

\* A faulty variant: position instead of rposition, the first slash.
RPositionSlash_First(path) ==
    IF \E i \in 1..Len(path) : path[i] = "/"
    THEN CHOOSE i \in 1..Len(path) :
            path[i] = "/" /\ \A j \in 1..(i - 1) : path[j] # "/"
    ELSE 0

\* full_path.bytes().rposition of the slash: the 1-based place of the
\* last '/', 0 when there is none.
RPositionSlash(path) ==
    IF \E i \in 1..Len(path) : path[i] = "/"
    THEN CHOOSE i \in 1..Len(path) :
            path[i] = "/" /\ \A j \in (i + 1)..Len(path) : path[j] # "/"
    ELSE 0

\* The while loop: pops segments until old_depth < depth. done: the early
\* return was taken; todo: the todo!() was reached.
RECURSIVE PopSegments(_, _, _, _)
PopSegments(path, od, name, depth) ==
    IF od >= depth /\ od > 0
    THEN LET slash_at == RPositionSlash(path)
         IN  IF slash_at # 0
             THEN IF od = depth
                     /\ Some(SubSeq(path, slash_at + 1, Len(path))) = name
                  THEN [full_path |-> path, old_depth |-> od,
                        done |-> TRUE, todo |-> FALSE]
                  ELSE PopSegments(SubSeq(path, 1, slash_at - 1), od - 1,
                                   name, depth)
             ELSE [full_path |-> path, old_depth |-> od,
                   done |-> FALSE, todo |-> TRUE]
    ELSE [full_path |-> path, old_depth |-> od, done |-> FALSE, todo |-> FALSE]

\* A faulty variant: a slash before every component, the first included.
PushName_AlwaysSlash(path, od, name) ==
    IF IsSome(name)
    THEN [full_path |-> path \o <<"/">> \o Unwrap(name), old_depth |-> od + 1]
    ELSE [full_path |-> path, old_depth |-> od]

\* if let Some(name) = name { push '/' unless empty; push name; depth += 1 }
PushName(path, od, name) ==
    IF IsSome(name)
    THEN [full_path |-> (IF path # <<>> THEN path \o <<"/">> ELSE path)
                            \o Unwrap(name),
          old_depth |-> od + 1]
    ELSE [full_path |-> path, old_depth |-> od]

\* update_full_path((full_path, old_depth), name, depth). panic is the
\* message of the todo!, debug_assert! or assert_eq! that fired, or "".
update_full_path(path, od, name, depth) ==
    LET popped == IF depth < 2
                  THEN [full_path |-> <<>>, old_depth |-> 0,
                        done |-> FALSE, todo |-> FALSE]
                  ELSE PopSegments(path, od, name, depth)
        pushed == PushName(popped.full_path, popped.old_depth, name)
    IN  IF popped.todo
        THEN [full_path |-> popped.full_path, old_depth |-> popped.old_depth,
              panic |-> "not yet implemented: no last slash_at"]
        ELSE IF popped.done
        THEN [full_path |-> popped.full_path, old_depth |-> popped.old_depth,
              panic |-> ""]
        ELSE IF debug_build /\ ~(popped.old_depth <= depth)
        THEN [full_path |-> popped.full_path, old_depth |-> popped.old_depth,
              panic |-> "assertion failed: *old_depth <= depth"]
        ELSE [full_path |-> pushed.full_path, old_depth |-> pushed.old_depth,
              panic |-> IF pushed.old_depth = depth THEN ""
                        ELSE "assertion failed: old_depth == depth"]

\* ----------------------------------------------- partition_children_leaves

\* A faulty variant: every child is given the index of the first slot.
DescentOf_FirstSlot(entry, depth, i) ==
    [kind |-> "Descent", node |-> entry.node, name |-> entry.name,
     depth |-> depth + 1, index |-> 0]

\* The Visited::Descent pushed for a Directory entry at 0-based place i.
DescentOf(entry, depth, i) ==
    [kind |-> "Descent", node |-> entry.node, name |-> entry.name,
     depth |-> depth + 1, index |-> i]

\* The slot pushed for the entry: None for a Directory, the NamedLeaf of a
\* Leaf.
SlotOf(entry) ==
    IF entry.kind = "Directory" THEN None
    ELSE Some([name |-> entry.name, link |-> entry.link,
               total_size |-> entry.total_size])

\* partition_children_leaves(depth, it, children): leaves is the returned
\* list, children the Vec it pushed the Descent frames to.
partition_children_leaves(depth, nodes, children) ==
    [leaves |-> [i \in 1..Len(nodes) |-> SlotOf(nodes[i])],
     children |-> children \o
        [j \in 1..Cardinality({i \in 1..Len(nodes) : nodes[i].kind = "Directory"})
            |-> LET i == CHOOSE i \in 1..Len(nodes) :
                           /\ nodes[i].kind = "Directory"
                           /\ Cardinality({h \in 1..i :
                                  nodes[h].kind = "Directory"}) = j
                IN  DescentOf(nodes[i], depth, i - 1)]]

\* ------------------------------------------------------------- LeafStorage

Direct(leaves) == [kind |-> "Direct", leaves |-> leaves]

Stashed(id) == [kind |-> "Stashed", id |-> id]

EmptyMap == [x \in {} |-> <<>>]

\* HashMap::insert and HashMap::remove.
Insert(map, key, value) ==
    [x \in DOMAIN map \cup {key} |-> IF x = key THEN value ELSE map[x]]

Remove(map, key) == [x \in DOMAIN map \ {key} |-> map[x]]

\* A faulty variant: the stashed list is read but its entry is not removed.
into_inner_KeepsEntry(storage, stash) ==
    IF storage.kind = "Direct"
    THEN [leaves |-> storage.leaves, stash |-> stash, panic |-> FALSE]
    ELSE IF storage.id \in DOMAIN stash
    THEN [leaves |-> stash[storage.id], stash |-> stash, panic |-> FALSE]
    ELSE [leaves |-> <<>>, stash |-> stash, panic |-> TRUE]

\* LeafStorage::into_inner(self, stash): the leaves and the stash afterwards;
\* panic when the expect on the removed entry failed.
into_inner(storage, stash) ==
    IF storage.kind = "Direct"
    THEN [leaves |-> storage.leaves, stash |-> stash, panic |-> FALSE]
    ELSE IF storage.id \in DOMAIN stash
    THEN [leaves |-> stash[storage.id], stash |-> Remove(stash, storage.id),
          panic |-> FALSE]
    ELSE [leaves |-> <<>>, stash |-> stash, panic |-> TRUE]

\* ------------------------------------------------------- PostOrderIterator

\* The iterator (with its history) as one record.
Self ==
    [full_path |-> full_path, old_depth |-> old_depth,
     block_buffer |-> block_buffer, pending |-> pending,
     persisted_cids |-> persisted_cids, reused_children |-> reused_children,
     cid |-> cid, total_size |-> total_size, opts |-> opts, pc |-> pc,
     result |-> result, out |-> out, visits |-> visits,
     exhausted |-> exhausted]

\* PostOrderIterator::new(root, opts, longest_path) over the tree t.
new(t, root, o) ==
    [full_path |-> <<>>, old_depth |-> 0, block_buffer |-> <<>>,
     pending |-> <<[kind |-> "DescentRoot", node |-> root]>>,
     persisted_cids |-> EmptyMap, reused_children |-> <<>>,
     cid |-> None, total_size |-> 0, opts |-> o, pc |-> "idle",
     result |-> [kind |-> "NotPulled"], out |-> <<>>,
     visits |-> [d \in DOMAIN t |-> [descent |-> 0, post |-> 0, render |-> 0]],
     exhausted |-> FALSE]

\* The frame self.pending.pop() takes.
Top(s) == s.pending[Len(s.pending)]

\* let (name, depth) = match &visited { .. }
FrameName(v) == IF v.kind \in {"Descent", "Post"} THEN Some(v.name) ELSE None

FrameDepth(v) == IF v.kind \in {"Descent", "Post"} THEN v.depth ELSE 0

\* The pull panics: the iterator is never pulled again.
Panicked(s, msg) ==
    [s EXCEPT !.pc = "panicked", !.result = [kind |-> "Panic", msg |-> msg]]

\* return Some(item)
ReturnSome(s, item) ==
    [s EXCEPT !.pc = "idle", !.result = item, !.out = Append(@, item)]

\* The loop is left (pending is empty, or the break): the pull returns None.
ReturnNone(s) ==
    [s EXCEPT !.pc = "idle", !.result = [kind |-> "None"], !.exhausted = TRUE]

\* Some(Ok(TreeNode { path, cid, total_size, block })) of the fields.
TreeNodeOf(s, node) ==
    [kind |-> "Ok", node |-> node, path |-> s.full_path,
     cid |-> Unwrap(s.cid), total_size |-> s.total_size,
     block |-> s.block_buffer]

\* A faulty variant: the list is stashed whether there are children or not.
StoreLeaves_AlwaysStashes(stash, id, part) ==
    [stash |-> Insert(stash, id, part.leaves), leaves |-> Stashed(id)]

\* if any_children { persisted_cids.insert(node.id, leaves); Stashed(id) }
\* else { Direct(leaves) }
StoreLeaves(stash, id, part) ==
    IF part.children # <<>>
    THEN [stash |-> Insert(stash, id, part.leaves), leaves |-> Stashed(id)]
    ELSE [stash |-> stash, leaves |-> Direct(part.leaves)]

\* A faulty variant: the post-process frame is pushed after the children.
PushFrames_PostOnTop(stack, post, children) ==
    Append(stack \o children, post)

\* A faulty variant: the children are not drained and are pushed again.
PushFrames_Twice(stack, post, children) ==
    Append(stack, post) \o children \o children

\* A faulty variant: the children are pushed last to first.
PushFrames_Reversed(stack, post, children) ==
    Append(stack, post)
        \o [i \in 1..Len(children) |-> children[Len(children) + 1 - i]]

\* self.pending.push(post); self.pending.extend(children.drain(..))
PushFrames(stack, post, children) == Append(stack, post) \o children

\* Visited::DescentRoot(node)
DescentRootArm(s, v) ==
    LET node == tree[v.node]
        part == partition_children_leaves(0, node.nodes, s.reused_children)
        kept == StoreLeaves(s.persisted_cids, node.id, part)
    IN  [s EXCEPT !.persisted_cids = kept.stash,
                  !.pending = PushFrames(@, [kind |-> "PostRoot",
                                             leaves |-> kept.leaves,
                                             node |-> v.node],
                                         part.children),
                  !.reused_children = <<>>]

\* Visited::Descent { node, name, depth, index }
DescentArm(s, v) ==
    LET node == tree[v.node]
        part == partition_children_leaves(v.depth, node.nodes,
                                          s.reused_children)
        kept == StoreLeaves(s.persisted_cids, node.id, part)
    IN  IF ~IsSome(node.parent_id)
        THEN Panicked(s, "only roots parent_id is None")
        ELSE [s EXCEPT !.persisted_cids = kept.stash,
                       !.pending = PushFrames(@, [kind |-> "Post",
                                        parent_id |-> Unwrap(node.parent_id),
                                        name |-> v.name, depth |-> v.depth,
                                        leaves |-> kept.leaves,
                                        index |-> v.index, node |-> v.node],
                                    part.children),
                       !.reused_children = <<>>]

\* A faulty variant: the link goes to the first slot that is still None, so
\* the list is filled in finishing order.
WriteBack_FirstFree(s, v, leaf) ==
    IF v.parent_id \notin DOMAIN s.persisted_cids
    THEN Panicked(s, "leaves not found for parent_id")
    ELSE IF LinksComplete(s.persisted_cids[v.parent_id])
    THEN Panicked(s, "assertion failed: cell.is_none()")
    ELSE LET list == s.persisted_cids[v.parent_id]
             free == CHOOSE i \in 1..Len(list) :
                        /\ list[i] = None
                        /\ \A h \in 1..(i - 1) : list[h] # None
         IN  ReturnSome(
                [s EXCEPT !.persisted_cids[v.parent_id][free] =
                    Some([name |-> v.name, link |-> leaf.link,
                          total_size |-> leaf.total_size])],
                TreeNodeOf(s, v.node))

\* The write-back of a finished link into the parent's stashed list.
WriteBack(s, v, leaf) ==
    IF v.parent_id \notin DOMAIN s.persisted_cids
    THEN Panicked(s, "leaves not found for parent_id")
    ELSE IF v.index >= Len(s.persisted_cids[v.parent_id])
    THEN Panicked(s, "index out of bounds")
    ELSE IF IsSome(s.persisted_cids[v.parent_id][v.index + 1])
    THEN Panicked(s, "assertion failed: cell.is_none()")
    ELSE ReturnSome(
            [s EXCEPT !.persisted_cids[v.parent_id][v.index + 1] =
                Some([name |-> v.name, link |-> leaf.link,
                      total_size |-> leaf.total_size])],
            TreeNodeOf(s, v.node))

\* A faulty variant: the parent's slot is filled before the outcome of the render is
\* looked at, so it is filled for a refused directory too.
Rendered_FillsSlotFirst(s, v, r, parent) ==
    LET s1 == [s EXCEPT !.block_buffer = r.buffer,
                        !.visits[v.node].render = @ + 1]
        link == IF r.kind = "Ok" THEN Unwrap(r.leaf)
                ELSE [link |-> <<18, 32, 0>>, total_size |-> 0]
        s2 == IF parent /\ v.parent_id \in DOMAIN s1.persisted_cids
              THEN [s1 EXCEPT !.persisted_cids[v.parent_id][v.index + 1] =
                        Some([name |-> v.name, link |-> link.link,
                              total_size |-> link.total_size])]
              ELSE s1
    IN  IF r.kind = "Panic" THEN Panicked(s1, r.msg)
        ELSE IF r.kind = "Err"
        THEN ReturnSome(s2, [kind |-> "Err", node |-> v.node,
                             size |-> r.size])
        ELSE LET s3 == [s2 EXCEPT !.cid = Some(link.link),
                                  !.total_size = link.total_size]
             IN  ReturnSome(s3, TreeNodeOf(s3, v.node))

\* What a post-process arm does with the outcome r of render_directory;
\* parent: the link is written back to the parent (Post) or not (PostRoot).
Rendered(s, v, r, parent) ==
    LET s1 == [s EXCEPT !.block_buffer = r.buffer,
                        !.visits[v.node].render = @ + 1]
    IN  IF r.kind = "Panic" THEN Panicked(s1, r.msg)
        ELSE IF r.kind = "Err"
        THEN ReturnSome(s1, [kind |-> "Err", node |-> v.node,
                             size |-> r.size])
        ELSE LET leaf == Unwrap(r.leaf)
                 s2 == [s1 EXCEPT !.cid = Some(leaf.link),
                                  !.total_size = leaf.total_size]
             IN  IF parent THEN WriteBack(s2, v, leaf)
                 ELSE ReturnSome(s2, TreeNodeOf(s2, v.node))

\* Visited::Post { parent_id, name, leaves, index, .. }
PostArm(s, v) ==
    LET inner == into_inner(v.leaves, s.persisted_cids)
        s1 == [s EXCEPT !.persisted_cids = inner.stash]
    IN  IF inner.panic
        THEN Panicked(s, "leaves are either stashed or direct")
        ELSE Rendered(s1, v,
                      render_directory(inner.leaves, s.block_buffer,
                                       s.opts.block_size_limit),
                      TRUE)

\* A faulty variant: the root is never rendered.
BreaksUnwrapped_Always(o) == TRUE

\* A faulty variant: the root is rendered and returned whatever the option says.
BreaksUnwrapped_Never(o) == FALSE

\* if !self.opts.wrap_with_directory { break; }
BreaksUnwrapped(o) == ~o.wrap_with_directory

\* Visited::PostRoot { leaves }
PostRootArm(s, v) ==
    LET inner == into_inner(v.leaves, s.persisted_cids)
        s1 == [s EXCEPT !.persisted_cids = inner.stash]
    IN  IF inner.panic
        THEN Panicked(s, "leaves are either stashed or direct")
        ELSE IF BreaksUnwrapped(s.opts) THEN ReturnNone(s1)
        ELSE Rendered(s1, v,
                      render_directory(inner.leaves, s.block_buffer,
                                       s.opts.block_size_limit),
                      FALSE)

\* One turn of `while let Some(visited) = self.pending.pop()`: the pop,
\* update_full_path, and the arm of the frame.
Iterate(s) ==
    LET v == Top(s)
        up == update_full_path(s.full_path, s.old_depth, FrameName(v),
                               FrameDepth(v))
        s1 == [s EXCEPT !.pending = SubSeq(@, 1, Len(@) - 1),
                        !.full_path = up.full_path,
                        !.old_depth = up.old_depth,
                        !.visits[v.node] =
                            IF v.kind \in {"DescentRoot", "Descent"}
                            THEN [@ EXCEPT !.descent = @ + 1]
                            ELSE [@ EXCEPT !.post = @ + 1]]
    IN  IF up.panic # "" THEN Panicked(s1, up.panic)
        ELSE IF v.kind = "DescentRoot" THEN DescentRootArm(s1, v)
        ELSE IF v.kind = "Descent" THEN DescentArm(s1, v)
        ELSE IF v.kind = "Post" THEN PostArm(s1, v)
        ELSE PostRootArm(s1, v)

\* One step of an iterator that is pulled again whenever a pull has
\* returned: the call, one turn of the loop, or the exit of the loop.
Step(s) ==
    IF s.pc = "idle" THEN [s EXCEPT !.pc = "loop"]
    ELSE IF s.pc = "loop"
    THEN (IF s.pending = <<>> THEN ReturnNone(s) ELSE Iterate(s))
    ELSE s

\* ----------------------------------------------------------------- actions

Holds(s) ==
    /\ full_path = s.full_path
    /\ old_depth = s.old_depth
    /\ block_buffer = s.block_buffer
    /\ pending = s.pending
    /\ persisted_cids = s.persisted_cids
    /\ reused_children = s.reused_children
    /\ cid = s.cid
    /\ total_size = s.total_size
    /\ opts = s.opts
    /\ pc = s.pc
    /\ result = s.result
    /\ out = s.out
    /\ visits = s.visits
    /\ exhausted = s.exhausted

Become(s) ==
    /\ full_path' = s.full_path
    /\ old_depth' = s.old_depth
    /\ block_buffer' = s.block_buffer
    /\ pending' = s.pending
    /\ persisted_cids' = s.persisted_cids
    /\ reused_children' = s.reused_children
    /\ cid' = s.cid
    /\ total_size' = s.total_size
    /\ opts' = s.opts
    /\ pc' = s.pc
    /\ result' = s.result
    /\ out' = s.out
    /\ visits' = s.visits
    /\ exhausted' = s.exhausted
    /\ UNCHANGED <<tree, debug_build>>

\* The block_size_limit values tried: none, the size of an empty directory,
\* and the size of a directory of one link with a one-letter name.
Limits ==
    {None, Some(Len(DirectoryData)),
     Some(get_size(<<Some([name |-> <<"a">>, link |-> CidV0(DirectoryData),
                           total_size |-> Len(DirectoryData)])>>))}

\* Construction over every input. paired: the twin is constructed too (for
\* PairSpec); otherwise there is none.
InitWith(paired) ==
    \E t \in Trees, w \in BOOLEAN, limit \in Limits, dbg \in BOOLEAN :
        /\ tree = t
        /\ debug_build = dbg
        /\ Holds(new(t, 0, [wrap_with_directory |-> w,
                            block_size_limit |-> limit]))
        /\ twin = IF paired
                  THEN new(t, 0, [wrap_with_directory |-> FALSE,
                                  block_size_limit |-> limit])
                  ELSE None

Init == InitWith(FALSE)

\* Each action of the iterator leaves the twin at tw: where it is (Spec) or
\* one step further (PairSpec).

\* The caller pulls: next_borrowed (or Iterator::next) is entered.
CallWith(tw) ==
    pc = "idle" /\ Become([Self EXCEPT !.pc = "loop"]) /\ twin' = tw

\* pending.pop() is None: the loop ends and the pull returns None.
LoopExitWith(tw) ==
    pc = "loop" /\ pending = <<>> /\ Become(ReturnNone(Self)) /\ twin' = tw

\* One turn of the loop on a frame of the given kind.
VisitWith(kind, tw) ==
    /\ pc = "loop" /\ pending # <<>> /\ Top(Self).kind = kind
    /\ Become(Iterate(Self))
    /\ twin' = tw

Call == CallWith(twin)

LoopExit == LoopExitWith(twin)

VisitDescentRoot == VisitWith("DescentRoot", twin)

VisitDescent == VisitWith("Descent", twin)

VisitPost == VisitWith("Post", twin)

VisitPostRoot == VisitWith("PostRoot", twin)

Next ==
    \/ Call
    \/ LoopExit
    \/ VisitDescentRoot
    \/ VisitDescent
    \/ VisitPost
    \/ VisitPostRoot

Spec == Init /\ [][Next]_vars

\* The same pulls with the twin stepped alongside: the wrapped and the
\* unwrapped traversal of one tree, pull by pull.
PairInit == InitWith(TRUE) /\ opts.wrap_with_directory

PairCall == CallWith(Step(twin))

PairLoopExit == LoopExitWith(Step(twin))

PairVisitDescentRoot == VisitWith("DescentRoot", Step(twin))

PairVisitDescent == VisitWith("Descent", Step(twin))

PairVisitPost == VisitWith("Post", Step(twin))

PairVisitPostRoot == VisitWith("PostRoot", Step(twin))

PairNext ==
    \/ PairCall
    \/ PairLoopExit
    \/ PairVisitDescentRoot
    \/ PairVisitDescent
    \/ PairVisitPost
    \/ PairVisitPostRoot

PairSpec == PairInit /\ [][PairNext]_vars

\* ------------------------------------------- the input tree, as a reference

Dirs == DOMAIN tree

ParentOf(d) == Unwrap(tree[d].parent_id)

\* The place (from 1) of directory d in its parent's ordered mapping.
PlaceOf(d) ==
    CHOOSE i \in 1..Len(tree[ParentOf(d)].nodes) :
        /\ tree[ParentOf(d)].nodes[i].kind = "Directory"
        /\ tree[ParentOf(d)].nodes[i].node = d

NameOf(d) == tree[ParentOf(d)].nodes[PlaceOf(d)].name

\* The subdirectory children of d.
Subdirs(d) == {c \in Dirs \ {0} : ParentOf(c) = d}

RECURSIVE IsAncestor(_, _)
IsAncestor(a, d) ==
    d # 0 /\ (ParentOf(d) = a \/ IsAncestor(a, ParentOf(d)))

\* The names from the root's child down to d, joined with '/'.
RECURSIVE ExpectedPath(_)
ExpectedPath(d) ==
    IF d = 0 THEN <<>>
    ELSE IF ParentOf(d) = 0 THEN NameOf(d)
    ELSE ExpectedPath(ParentOf(d)) \o <<"/">> \o NameOf(d)

\* --------------------------------------------------- the returned sequence

Items == 1..Len(out)

OkAt(i) == out[i].kind = "Ok"

ErrAt(i) == out[i].kind = "Err"

\* A record of directory d has been returned; the place of the first.
Emitted(d) == \E i \in Items : OkAt(i) /\ out[i].node = d

PosOf(d) ==
    CHOOSE i \in Items :
        /\ OkAt(i) /\ out[i].node = d
        /\ \A h \in 1..(i - 1) : ~(OkAt(h) /\ out[h].node = d)

\* A TooLargeBlock has been returned for directory d.
Failed(d) == \E i \in Items : ErrAt(i) /\ out[i].node = d

\* Every subdirectory child of d has its record.
ChildrenEmitted(d) == \A c \in Subdirs(d) : Emitted(c)

\* The link list of d once every child has finished: a Leaf entry gives its
\* own link and size, a Directory entry the cid and total_size of its record.
FinishedLinks(d) ==
    [i \in 1..Len(tree[d].nodes) |->
        LET e == tree[d].nodes[i]
        IN  IF e.kind = "Leaf"
            THEN Some([name |-> e.name, link |-> e.link,
                       total_size |-> e.total_size])
            ELSE Some([name |-> e.name, link |-> out[PosOf(e.node)].cid,
                       total_size |-> out[PosOf(e.node)].total_size])]

\* -------------------------------------------------------------------- C1

\* C1 (post-order): whenever the records of a directory and of one of its
\* descendants are both in the returned sequence, the descendant's record
\* comes strictly first; and a directory's record is returned only after
\* the record of every one of its subdirectory children.
C1_PostOrder ==
    /\ \A i, j \in Items :
          (OkAt(i) /\ OkAt(j) /\ IsAncestor(out[j].node, out[i].node))
              => i < j
    /\ \A j \in Items :
          OkAt(j) =>
              \A c \in Subdirs(out[j].node) :
                  \E i \in 1..(j - 1) : OkAt(i) /\ out[i].node = c

\* A directory two levels down, its parent and the root have all been
\* returned.
C1_Witness ==
    \E d \in Dirs \ {0} :
        /\ ParentOf(d) # 0
        /\ Emitted(d) /\ Emitted(ParentOf(d)) /\ Emitted(0)

\* -------------------------------------------------------------------- C2

\* C2 (non-resumable after an error): once a pull has returned
\* TooLargeBlock, no later pull returns a record or another error: an
\* error is the last item of the returned sequence.
C2_NothingAfterError == \A i \in Items : ErrAt(i) => i = Len(out)

\* -------------------------------------------------------------------- C3

LimitSet == IsSome(opts.block_size_limit)

\* The size-limit contract for directory d, whose link list was complete:
\* TooLargeBlock(size) is returned exactly when size exceeds the limit, and
\* then d has no record and its slot in the parent's stashed list is None.
LimitEnforcedFor(d) ==
    LET size == get_size(FinishedLinks(d))
        limit == Unwrap(opts.block_size_limit)
    IN  /\ (\E i \in Items : ErrAt(i) /\ out[i].node = d /\ out[i].size = size)
              <=> size > limit
        /\ Failed(d) => ~Emitted(d)
        /\ (Failed(d) /\ d # 0 /\ ParentOf(d) \in DOMAIN persisted_cids)
              => persisted_cids[ParentOf(d)][PlaceOf(d)] = None

\* C3 as stated (size-limit enforcement for every directory that reaches
\* post-processing): for every directory whose post-process frame has been
\* popped with a limit set, TooLargeBlock carrying its encoded size was
\* returned iff that size is greater than the limit, and then without a
\* record and with the parent's slot left None.
C3_EveryPostProcessed ==
    \A d \in Dirs :
        (LimitSet /\ visits[d].post > 0 /\ ChildrenEmitted(d))
            => LimitEnforcedFor(d)

\* C3 as amended: the same for every directory render_directory was called
\* for with a complete link list; the root of an unwrapped traversal is
\* never rendered, so no item at all is returned for it.
C3_EveryRendered ==
    /\ \A d \in Dirs :
          (LimitSet /\ visits[d].render > 0 /\ ChildrenEmitted(d))
              => LimitEnforcedFor(d)
    /\ ~opts.wrap_with_directory
          => (visits[0].render = 0 /\ ~Emitted(0) /\ ~Failed(0))

\* One directory was refused and another, whose size equals the limit, has
\* its record.
C3_Witness ==
    /\ LimitSet
    /\ \E d, e \in Dirs :
          /\ Failed(d)
          /\ Emitted(e)
          /\ Len(out[PosOf(e)].block) = Unwrap(opts.block_size_limit)

\* -------------------------------------------------------------------- C4

\* C4 (path correctness): the path of every returned record is the names on
\* the chain from the root's child down to its directory joined with '/',
\* and the wrapping root's record has the empty path.
C4_PathCorrect ==
    \A i \in Items : OkAt(i) => out[i].path = ExpectedPath(out[i].node)

\* Records have been returned for a directory three levels down that has
\* its parent's name, for its parent, and for the root.
C4_Witness ==
    /\ Emitted(0)
    /\ \E d \in Dirs \ {0} :
          /\ ParentOf(d) # 0 /\ ParentOf(ParentOf(d)) # 0
          /\ NameOf(d) = NameOf(ParentOf(d))
          /\ Emitted(d) /\ Emitted(ParentOf(d))

\* -------------------------------------------------------------------- C5

\* The sum of the total_size of the direct child links of d.
RECURSIVE SumSizes(_)
SumSizes(links) ==
    IF links = <<>> THEN 0
    ELSE Unwrap(Head(links)).total_size + SumSizes(Tail(links))

\* C5 (size aggregation): the total_size of every returned record is the
\* length of its block plus the sum of the total_size of its direct child
\* links: the stored size of a Leaf, the total_size of the record of a
\* subdirectory.
C5_SizeAggregation ==
    \A i \in Items :
        OkAt(i) => out[i].total_size
                     = Len(out[i].block) + SumSizes(FinishedLinks(out[i].node))

\* -------------------------------------------------------------------- C6

\* The last item of the wrapped traversal.
LastItem == out[Len(out)]

\* C6 as stated (wrap_with_directory toggle), read on the wrapped traversal
\* and its unwrapped twin once the twin is exhausted: the wrapped sequence
\* is the unwrapped one plus one record, the wrapping root's, at the end.
C6_OneRecordMore ==
    twin.exhausted =>
        /\ Len(out) = Len(twin.out) + 1
        /\ SubSeq(out, 1, Len(out) - 1) = twin.out
        /\ LastItem.kind = "Ok" /\ LastItem.node = 0

\* C6 as amended: the wrapped sequence is the unwrapped one plus one item
\* for the root at the end, its record or its TooLargeBlock; when the
\* render of the root panics the two sequences are the same. Until the
\* root's post-process frame the two traversals return the same items.
C6_OneItemMore ==
    /\ ~twin.exhausted => out = twin.out
    /\ (twin.exhausted /\ pc = "panicked") => out = twin.out
    /\ (twin.exhausted /\ pc # "panicked") =>
          /\ Len(out) = Len(twin.out) + 1
          /\ SubSeq(out, 1, Len(out) - 1) = twin.out
          /\ LastItem.node = 0
          /\ LastItem.kind \in {"Ok", "Err"}
          /\ LastItem.kind = "Ok" => LastItem.path = <<>>

\* Both traversals are over, the unwrapped one returned two records and
\* the wrapped one the root's record after them.
C6_Witness ==
    /\ twin.exhausted /\ exhausted
    /\ Len(twin.out) >= 2
    /\ LastItem.kind = "Ok" /\ LastItem.node = 0

\* -------------------------------------------------------------------- C7

InSubtree(x, s) == x = s \/ IsAncestor(s, x)

\* C7 (reverse sibling order): for two subdirectories of one directory,
\* every record of the subtree of the later one in the mapping's order is
\* returned before every record of the subtree of the earlier one.
C7_ReverseSiblings ==
    \A p \in Dirs :
        \A a, b \in 1..Len(tree[p].nodes) :
            ( /\ a < b
              /\ tree[p].nodes[a].kind = "Directory"
              /\ tree[p].nodes[b].kind = "Directory" ) =>
                LET sa == tree[p].nodes[a].node
                    sb == tree[p].nodes[b].node
                IN  \A i, j \in Items :
                        ( /\ OkAt(i) /\ OkAt(j)
                          /\ InSubtree(out[i].node, sa)
                          /\ InSubtree(out[j].node, sb) ) => j < i

\* Three sibling subdirectories have all been returned.
C7_Witness ==
    \E p \in Dirs :
        /\ Cardinality(Subdirs(p)) = 3
        /\ \A c \in Subdirs(p) : Emitted(c)

\* -------------------------------------------------------------------- C8

\* C8 (exhaustion is stable; one outcome per pull): once a pull has returned
\* None no step changes the iterator or the returned sequence and every
\* later pull returns None; and every pull returns: exactly one record, one
\* error, or None - it never panics.
C8_StableExhaustion ==
    [][ /\ exhausted =>
            /\ UNCHANGED <<full_path, old_depth, block_buffer, pending,
                           persisted_cids, cid, total_size, out>>
            /\ pc' = "idle" => result'.kind = "None"
        /\ pc' # "panicked"
        /\ (pc = "loop" /\ pc' = "idle") =>
            \/ result'.kind \in {"Ok", "Err"} /\ out' = Append(out, result')
            \/ result'.kind = "None" /\ out' = out ]_vars

\* -------------------------------------------------------------------- C9

\* The records returned so far.
RecordCount == Cardinality({i \in Items : OkAt(i)})

\* One record per directory below the root, one more when wrapping.
MostRecords ==
    Cardinality(Dirs) - 1 + (IF opts.wrap_with_directory THEN 1 ELSE 0)

\* C9 (finiteness): repeated pulling reaches exhaustion after finitely
\* many pulls - no frame of a directory is popped twice, so the loop turns
\* at most twice per directory, and until a pull has returned None the
\* iterator can be pulled or is running (a step is enabled exactly when pc is
\* "idle" or "loop"); the records never outnumber the directories below
\* the root (plus one when wrapping); a traversal without an error returns
\* exactly that many.
C9_Finiteness ==
    /\ \A d \in Dirs : visits[d].descent <= 1 /\ visits[d].post <= 1
    /\ exhausted \/ pc \in {"idle", "loop"}
    /\ RecordCount <= MostRecords
    /\ (exhausted /\ \A i \in Items : ~ErrAt(i)) => RecordCount = MostRecords

\* ------------------------------------------------------------------- C10

\* The traversal is over and returned no error.
CompleteWithoutError == exhausted /\ \A i \in Items : ~ErrAt(i)

\* C10 as stated (render_directory once per directory): in a complete
\* traversal without an error render_directory was called exactly once for
\* every directory, the root included, wrapped or not.
C10_OncePerDirectory ==
    CompleteWithoutError => \A d \in Dirs : visits[d].render = 1

\* C10 as amended: exactly once for every directory below the root; for
\* the root once when wrap_with_directory is set and never otherwise. The
\* root's post-process frame resolves its storage either way: the stash is
\* empty afterwards.
C10_OncePerRenderedDirectory ==
    CompleteWithoutError =>
        /\ \A d \in Dirs \ {0} : visits[d].render = 1
        /\ visits[0].render = IF opts.wrap_with_directory THEN 1 ELSE 0
        /\ visits[0].post = 1
        /\ DOMAIN persisted_cids = {}

\* An unwrapped traversal of a tree of at least three directories is over
\* without an error.
C10_Witness ==
    /\ CompleteWithoutError
    /\ ~opts.wrap_with_directory
    /\ Cardinality(Dirs) >= 3

\* ------------------------------------------------ the frame about to be popped

\* The loop is about to pop a frame, and the frame it will pop.
AboutToPop == pc = "loop" /\ pending # <<>>

TopFrame == pending[Len(pending)]

\* The frame about to be popped is a post-process frame that will call
\* render_directory: every Post, and the PostRoot of a wrapped traversal.
AboutToRender ==
    /\ AboutToPop
    /\ \/ TopFrame.kind = "Post"
       \/ TopFrame.kind = "PostRoot" /\ ~BreaksUnwrapped(opts)

\* What into_inner gives for that frame: the list its storage resolves to
\* and the stash afterwards.
Resolved == into_inner(TopFrame.leaves, persisted_cids)

ResolvedLeaves == Resolved.leaves

\* -------------------------------------------------------------------- C11

\* C11 (every link list is complete when rendered): whenever a Post or
\* PostRoot frame is about to hand its resolved link list to
\* render_directory every slot of the list is Some, and no pull has
\* panicked on the unwrap of a link slot.
C11_LinksCompleteWhenRendered ==
    /\ AboutToRender => LinksComplete(ResolvedLeaves)
    /\ result.kind = "Panic" =>
          result.msg # "called Option::unwrap() on a None value"

\* -------------------------------------------------------------------- C12

\* The places on the pending stack of the post-process frames whose storage
\* is LeafStorage::Stashed(id).
StashedFrames(id) ==
    {i \in 1..Len(pending) :
        /\ pending[i].kind \in {"Post", "PostRoot"}
        /\ pending[i].leaves = Stashed(id)}

\* Between pulls (and between two turns of the loop) the keys of the stash
\* are the ids some pending post-process frame references as Stashed, one
\* frame each; an id whose post-process frame has been popped is no key.
StashMatchesFrames ==
    pc \in {"idle", "loop"} =>
        /\ DOMAIN persisted_cids \subseteq Dirs
        /\ \A id \in Dirs :
              /\ Cardinality(StashedFrames(id)) <= 1
              /\ id \in DOMAIN persisted_cids
                    <=> Cardinality(StashedFrames(id)) = 1
              /\ visits[id].post > 0 => id \notin DOMAIN persisted_cids

\* An id becomes a key only in the step that pops its directory's first
\* descend frame, and stops being one only in the step that pops its
\* (first) post-process frame.
StashChangesOnce ==
    \A id \in Dirs :
        /\ (id \notin DOMAIN persisted_cids /\ id \in DOMAIN persisted_cids')
              => visits[id].descent = 0 /\ visits'[id].descent = 1
        /\ (id \in DOMAIN persisted_cids /\ id \notin DOMAIN persisted_cids')
              => visits[id].post = 0 /\ visits'[id].post = 1

\* C12 (stash consistency): an id is a key of persisted_cids if and only if
\* exactly one pending Post or PostRoot frame has the storage Stashed(id);
\* each id is inserted at most once, when its directory is descended, and
\* removed once, when that post-process frame is popped and resolved.
C12_StashConsistency == []StashMatchesFrames /\ [][StashChangesOnce]_vars

\* Between two pulls one directory is still stashed while another, which
\* had been stashed, has been resolved and removed.
C12_Witness ==
    /\ pc = "idle"
    /\ \E a, b \in Dirs :
          /\ a \in DOMAIN persisted_cids
          /\ Cardinality(StashedFrames(a)) = 1
          /\ Subdirs(b) # {} /\ visits[b].post = 1
          /\ b \notin DOMAIN persisted_cids

\* -------------------------------------------------------------------- C13

\* The panics of the write-back and of the stash lookup.
WriteBackPanics ==
    {"leaves not found for parent_id", "index out of bounds",
     "assertion failed: cell.is_none()",
     "leaves are either stashed or direct"}

\* C13 (write-back is always possible and happens once per slot): whenever
\* a Post frame is about to be popped, the stash holds its parent's id once
\* the frame's own storage is resolved and the parent's slot at the frame's
\* index is None; the stash lookup of a Stashed frame finds its id; and no
\* pull has panicked in the write-back or in into_inner.
C13_WriteBackPossible ==
    /\ result.kind = "Panic" => result.msg \notin WriteBackPanics
    /\ (AboutToPop /\ TopFrame.kind \in {"Post", "PostRoot"}) =>
          LET v == TopFrame
              inner == Resolved
          IN  /\ ~inner.panic
              /\ v.kind = "Post" =>
                    /\ v.parent_id \in DOMAIN inner.stash
                    /\ v.index < Len(inner.stash[v.parent_id])
                    /\ inner.stash[v.parent_id][v.index + 1] = None

\* Two children of one directory have written their links back into its
\* stashed list, which is still in the stash.
C13_Witness ==
    \E p \in DOMAIN persisted_cids :
        \E c, e \in Subdirs(p) :
            /\ c # e /\ Emitted(c) /\ Emitted(e)
            /\ IsSome(persisted_cids[p][PlaceOf(c)])
            /\ IsSome(persisted_cids[p][PlaceOf(e)])

\* -------------------------------------------------------------------- C14

\* Slot i of a link list of directory d is what the i-th entry of d's
\* mapping gives: for a Leaf the leaf's own link and size; for a Directory,
\* once filled, the cid and total_size of the record of that child.
SlotMatchesChild(d, i, slot) ==
    LET e == tree[d].nodes[i]
    IN  IF e.kind = "Leaf"
        THEN slot = Some([name |-> e.name, link |-> e.link,
                          total_size |-> e.total_size])
        ELSE IsSome(slot) =>
                /\ Emitted(e.node)
                /\ slot = Some([name |-> e.name,
                                link |-> out[PosOf(e.node)].cid,
                                total_size |-> out[PosOf(e.node)].total_size])

\* C14 (link order is the child order, not the finishing order): the link
\* list a post-process frame is about to render has one slot per entry of
\* its directory's mapping, and slot i carries the name of the i-th entry
\* with the leaf's given link and size (Leaf) or the cid and total_size of
\* the child's record (Directory).
C14_LinkOrder ==
    AboutToRender =>
        LET d == TopFrame.node
            links == ResolvedLeaves
        IN  /\ Len(links) = Len(tree[d].nodes)
            /\ \A i \in 1..Len(links) : SlotMatchesChild(d, i, links[i])

\* A directory with a leaf between two subdirectories, one of which has a
\* subdirectory of its own, has been rendered and returned.
C14_Witness ==
    \E d \in Dirs :
        /\ Emitted(d)
        /\ \E i \in 1..Len(tree[d].nodes) : tree[d].nodes[i].kind = "Leaf"
        /\ \E c, e \in Subdirs(d) :
              c # e /\ Subdirs(c) # {} /\ Emitted(c) /\ Emitted(e)

\* -------------------------------------------------------------------- C15

DescendKinds == {"DescentRoot", "Descent"}

PostKinds == {"PostRoot", "Post"}

\* C15 (each directory is visited once as a descend frame and once as a
\* post-process frame): no directory is popped twice as a descend frame or
\* twice as a post-process frame, it is popped as a post-process frame only
\* after it was popped as a descend frame, the pending stack never holds
\* two frames of one directory (of the same kind or not), a pending frame
\* is one that was not popped before, and after a complete error-free
\* traversal every directory has been popped exactly once as each.
C15_VisitedOnce ==
    /\ \A d \in Dirs :
          /\ visits[d].descent <= 1 /\ visits[d].post <= 1
          /\ visits[d].post <= visits[d].descent
          /\ CompleteWithoutError =>
                visits[d].descent = 1 /\ visits[d].post = 1
    /\ \A i \in 1..Len(pending) :
          /\ \A j \in (i + 1)..Len(pending) :
                pending[i].node # pending[j].node
          /\ IF pending[i].kind \in DescendKinds
             THEN visits[pending[i].node].descent = 0
             ELSE /\ visits[pending[i].node].descent = 1
                  /\ visits[pending[i].node].post = 0

\* A complete error-free traversal of a tree with a directory two levels
\* down, every directory popped once as each kind of frame.
C15_Witness ==
    /\ CompleteWithoutError
    /\ \E d \in Dirs \ {0} : ParentOf(d) # 0
    /\ \A d \in Dirs : visits[d].descent = 1 /\ visits[d].post = 1

\* -------------------------------------------------------------------- C16

\* The number of '/'-separated segments of a path.
Segments(path) ==
    IF path = <<>> THEN 0
    ELSE 1 + Cardinality({i \in 1..Len(path) : path[i] = "/"})

\* update_full_path as the next turn of the loop will call it.
PathUpdate ==
    update_full_path(full_path, old_depth, FrameName(TopFrame),
                     FrameDepth(TopFrame))

PathTrackerPanics ==
    {"not yet implemented: no last slash_at",
     "assertion failed: *old_depth <= depth",
     "assertion failed: old_depth == depth"}

\* C16 (the path tracker stays synchronised): for every frame about to be
\* popped, update_full_path ends without the todo! or a failed assertion,
\* with old_depth equal to the frame's depth and to the number of segments
\* of full_path, the early return included; between turns old_depth is the
\* number of segments of full_path.
C16_PathTrackerSynchronised ==
    /\ old_depth = Segments(full_path)
    /\ result.kind = "Panic" => result.msg \notin PathTrackerPanics
    /\ AboutToPop =>
          LET up == PathUpdate
          IN  /\ up.panic = ""
              /\ up.old_depth = FrameDepth(TopFrame)
              /\ up.old_depth = Segments(up.full_path)

\* The record of a directory two or more levels down that has no
\* subdirectory has just been returned: its Post frame was popped right
\* after its Descent frame, so the turn took the early return.
C16_Witness ==
    /\ pc = "idle" /\ out # <<>> /\ OkAt(Len(out))
    /\ Subdirs(LastItem.node) = {}
    /\ old_depth >= 2
    /\ full_path = ExpectedPath(LastItem.node)

\* -------------------------------------------------------------------- C17

\* Some entry of directory d's mapping is a Directory.
HasDirectoryChild(d) ==
    \E i \in 1..Len(tree[d].nodes) : tree[d].nodes[i].kind = "Directory"

\* The list partition_children_leaves returns for directory d.
OwnLeaves(d) == [i \in 1..Len(tree[d].nodes) |-> SlotOf(tree[d].nodes[i])]

\* C17 (the storage form is chosen by the children): a pending
\* post-process frame carries Stashed(id), with its id a key of the stash,
\* if and only if its directory has a Directory entry; otherwise it
\* carries, as Direct, the list of its own leaves; a directory without a
\* Directory entry is never a key of the stash, and its record's block is
\* rendered from that direct list.
C17_StorageForm ==
    /\ \A i \in 1..Len(pending) :
          pending[i].kind \in PostKinds =>
              LET d == pending[i].node
              IN  IF HasDirectoryChild(d)
                  THEN /\ pending[i].leaves = Stashed(tree[d].id)
                       /\ tree[d].id \in DOMAIN persisted_cids
                  ELSE pending[i].leaves = Direct(OwnLeaves(d))
    /\ \A d \in Dirs :
          ~HasDirectoryChild(d) => tree[d].id \notin DOMAIN persisted_cids
    /\ \A i \in Items :
          (OkAt(i) /\ ~HasDirectoryChild(out[i].node)) =>
              out[i].block = Encode(OwnLeaves(out[i].node))

\* A directory holding only a leaf has been rendered and returned while
\* the frame of a directory with subdirectories is pending, stashed.
C17_Witness ==
    /\ \E d \in Dirs :
          /\ ~HasDirectoryChild(d) /\ tree[d].nodes # <<>>
          /\ Emitted(d)
    /\ \E i \in 1..Len(pending) :
          /\ pending[i].kind \in PostKinds
          /\ pending[i].leaves.kind = "Stashed"
          /\ pending[i].leaves.id \in DOMAIN persisted_cids

\* -------------------------------------------------------------------- C18

\* The place of the last record returned.
LastOk == CHOOSE i \in Items : OkAt(i) /\ \A j \in (i + 1)..Len(out) : ~OkAt(j)

\* C18 (block buffer reuse never leaks a previous block): the block of
\* every record is exactly the encoding of its directory's links, of the
\* encoded size, whatever the buffer held before; and the buffer holds the
\* block of the last record returned (nothing before the first), so a
\* render refused by the size limit has left it unchanged.
C18_BufferHoldsLastBlock ==
    /\ \A i \in Items :
          OkAt(i) =>
              LET links == FinishedLinks(out[i].node)
              IN  /\ out[i].block = Encode(links)
                  /\ Len(out[i].block) = get_size(links)
    /\ pc # "panicked" =>
          block_buffer = IF \E i \in Items : OkAt(i) THEN out[LastOk].block
                         ELSE <<>>

\* Three records in a row, the second block longer than the first and the
\* third shorter than the second, then a directory refused by the limit
\* with the third block still in the buffer.
C18_Witness ==
    \E i \in Items :
        /\ i + 3 <= Len(out)
        /\ OkAt(i) /\ OkAt(i + 1) /\ OkAt(i + 2) /\ ErrAt(i + 3)
        /\ Len(out[i].block) < Len(out[i + 1].block)
        /\ Len(out[i + 2].block) < Len(out[i + 1].block)
        /\ block_buffer = out[i + 2].block

\* -------------------------------------------------------------------- C19

RootKinds == {"DescentRoot", "PostRoot"}

\* C19 (the two terminal conditions coincide): the root's frame is the
\* bottom element of the pending stack and the only root frame on it; once
\* the PostRoot frame has been popped and its storage resolved the stack
\* and the stash are both empty, so the break of an unwrapped traversal
\* leaves no frame and no stash entry behind; and the root's record of a
\* wrapped traversal is the last item returned.
C19_TerminalConditionsCoincide ==
    /\ pending # <<>> =>
          /\ pending[1].kind \in RootKinds
          /\ \A i \in 2..Len(pending) : pending[i].kind \notin RootKinds
    /\ visits[0].post > 0 => pending = <<>> /\ persisted_cids = EmptyMap
    /\ exhausted => pending = <<>> /\ persisted_cids = EmptyMap
    /\ Emitted(0) => PosOf(0) = Len(out)

\* An unwrapped traversal of a root with subdirectories, whose list was
\* stashed, has returned records and then ended at the break.
C19_Witness ==
    /\ ~opts.wrap_with_directory
    /\ HasDirectoryChild(0)
    /\ exhausted /\ visits[0].post = 1
    /\ Len(out) >= 2

====
